---- MODULE Spec2Model ----
(***************************************************************************)
(* Model of the adaptive profiler core: Profiler<C> (src/src/profiler.rs),  *)
(* its Stopwatch frames (src/src/stopwatch.rs) and the racing update.       *)
(*                                                                         *)
(* The counter is a monotone clock: every counter.read() returns a reading  *)
(* that is at least the previous one.  Readings are naturals, Durations     *)
(* are differences of readings.                                             *)
(***************************************************************************)
EXTENDS Integers, Sequences, FiniteSets, TLC

\* ---------------------------------------------------------------- bounds
MaxClock == 3        \* counter readings are 0..MaxClock
MaxStep == 1         \* a reading exceeds the previous one by at most MaxStep
MaxCalls == 3        \* Call and NativeCall events the host delivers
MaxLooseCalls == 2   \* Call and NativeCall events of a source that does not keep the nesting
MaxRaceLen == 20     \* longest sample sequence of a racing snapshot
MaxRaceVal == 4      \* racing snapshots hold cumulative values 10, 20 .. 10 * MaxRaceVal
CalleeCost == 1      \* what a call of the callee costs in a snapshot with nested calls

\* program constants
MinSamples == 10     \* values.len() < 10
TrimPercent == 5     \* percent = 0.05

\* function names the event source delivers; NativeNames are those it also
\* reports as native (C) functions
Names == {"f", "g"}
NativeNames == {"g"}
\* the names of a racing snapshot, in interning order
RaceNames == << "f", "g", "h" >>

\* Option<T>: None is the empty sequence, Some(v) is <<v>>
None == << >>
Some(v) == << v >>

VARIABLES
    clock,           \* the last reading the counter returned
    interner,        \* StringInterner: names in order of first sighting
    blacklist,       \* SplaySet<Symbol>
    stack,           \* Vec<Stopwatch>
    times,           \* SplayMap<Symbol, Vec<Statistics>>: the live store
    previous_times,  \* SplayMap<Symbol, Vec<Statistics>>: the finalized store
    c_enter_count,   \* Option<ValueType>: pending native-entry reading
    disable_updates, \* RacingAlgorithm::disable_updates
    panicked,        \* an unwrap() failed: the thread is gone
    statistics,      \* Some(the Vec returned) when the handler that ran last was get_statistics
    flushed,         \* get_statistics() has been called
    last_op,         \* the handler that ran last, its argument, what it blacklisted
    calls,           \* the number of Call and NativeCall events delivered so far
    frames,          \* the host's real call stack (event source side)
    native_open,     \* Some(name) while the host is inside the native function name
    in_sync,         \* every event so far was properly nested and no open measured frame was skipped
    pairs            \* per name, the call/return pairs completed so far, as long as the
                     \* events are well nested and nothing is blacklisted (0 afterwards)

vars == << clock, interner, blacklist, stack, times, previous_times,
           c_enter_count, disable_updates, panicked, statistics, flushed, last_op, calls, frames,
           native_open, in_sync, pairs >>

\* ------------------------------------------------------------ sequences
Last(s) == s[Len(s)]
Front(s) == SubSeq(s, 1, Len(s) - 1)

\* ------------------------------------------------------------- interner
\* position of a name in the interner, 0 when it was never seen
IndexOf(seq, name) ==
    IF \E i \in 1..Len(seq) : seq[i] = name
    THEN CHOOSE i \in 1..Len(seq) : seq[i] = name
    ELSE 0

\* StringInterner::get_or_intern: the interner after the call
get_or_intern(seq, name) ==
    IF IndexOf(seq, name) = 0 THEN Append(seq, name) ELSE seq

\* the symbol get_or_intern returns for name
SymbolOf(seq, name) == IndexOf(get_or_intern(seq, name), name)

\* StringInterner::resolve
resolve(seq, symbol) == seq[symbol]

\* ------------------------------------------------------------ stopwatch
\* The arithmetic is that of stopwatch.rs; the profiler hands each
\* operation the reading it took (profiler.rs:131,135,150,158).
Stopwatch_new(value) == [elapsed |-> 0, start |-> value, last |-> value]

pause(sw, value) == [sw EXCEPT !.elapsed = sw.elapsed + (value - sw.last)]

unpause_keep(sw, value) == sw
unpause(sw, value) == [sw EXCEPT !.last = value]

stop_elapsed_only(sw, v1, v2) == [total |-> sw.elapsed, cumulative |-> v1 - sw.start]
stop(sw, v1, v2) ==
    [total |-> sw.elapsed + (v2 - sw.last), cumulative |-> v1 - sw.start]

\* ----------------------------------------------------------------- maps
MapRemove(m, k) == [x \in DOMAIN m \ {k} |-> m[x]]
MapInsert(m, k, v) == [x \in DOMAIN m \cup {k} |-> IF x = k THEN v ELSE m[x]]
EmptyMap == [x \in {} |-> << >>]

\* the sample stores and the blacklist, as add_to_blacklist sees them
Stores == [times |-> times, previous_times |-> previous_times, blacklist |-> blacklist]

\* SplaySet::contains on the blacklist
never_contains(bl, symbol) == FALSE
blacklist_contains(bl, symbol) == symbol \in bl

CurrentTimes(st, symbol) == IF symbol \in DOMAIN st.times THEN st.times[symbol] ELSE << >>
add_to_blacklist_keep_live(st, symbol) ==
    [st EXCEPT !.previous_times = MapInsert(@, symbol, CurrentTimes(st, symbol)),
               !.blacklist = @ \cup {symbol}]
add_to_blacklist_copy(st, symbol) ==
    [st EXCEPT !.previous_times =
                   IF symbol \in DOMAIN @
                   THEN [@ EXCEPT ![symbol] = @ \o CurrentTimes(st, symbol)]
                   ELSE MapInsert(@, symbol, CurrentTimes(st, symbol)),
               !.blacklist = @ \cup {symbol}]
add_to_blacklist_only(st, symbol) ==
    [times |-> MapRemove(st.times, symbol),
     previous_times |->
         IF symbol \in DOMAIN st.previous_times
         THEN [st.previous_times EXCEPT ![symbol] = @ \o CurrentTimes(st, symbol)]
         ELSE MapInsert(st.previous_times, symbol, CurrentTimes(st, symbol)),
     blacklist |-> {symbol}]
add_to_blacklist_drop(st, symbol) ==
    [times |-> MapRemove(st.times, symbol),
     previous_times |-> IF symbol \in DOMAIN st.previous_times THEN st.previous_times
                        ELSE MapInsert(st.previous_times, symbol, << >>),
     blacklist |-> st.blacklist \cup {symbol}]
add_to_blacklist_no_insert(st, symbol) ==
    [times |-> MapRemove(st.times, symbol),
     previous_times |-> MapInsert(st.previous_times, symbol, CurrentTimes(st, symbol)),
     blacklist |-> st.blacklist]
add_to_blacklist_overwrite(st, symbol) ==
    [times |-> MapRemove(st.times, symbol),
     previous_times |-> MapInsert(st.previous_times, symbol, CurrentTimes(st, symbol)),
     blacklist |-> st.blacklist \cup {symbol}]
add_to_blacklist(st, symbol) ==
    LET current_times == IF symbol \in DOMAIN st.times THEN st.times[symbol] ELSE << >>
    IN [times |-> MapRemove(st.times, symbol),
        previous_times |->
            IF symbol \in DOMAIN st.previous_times
            THEN [st.previous_times EXCEPT ![symbol] = @ \o current_times]
            ELSE MapInsert(st.previous_times, symbol, current_times),
        blacklist |-> st.blacklist \cup {symbol}]

record_statistics_replace(m, symbol, stats) == MapInsert(m, symbol, << stats >>)
record_statistics(m, symbol, stats) ==
    LET m1 == IF symbol \in DOMAIN m THEN m ELSE MapInsert(m, symbol, << >>)
    IN [m1 EXCEPT ![symbol] = Append(@, stats)]

\* ------------------------------------------------------- racing update
\* IntoU128::into_u128: Duration::as_nanos, u128::from(u64); readings count nanoseconds
into_u128(d) == d

\* x put at its place in an ascending sequence
InsertSorted(x, sorted) ==
    LET k == Cardinality({ i \in 1..Len(sorted) : sorted[i] < x })
    IN SubSeq(sorted, 1, k) \o << x >> \o SubSeq(sorted, k + 1, Len(sorted))

\* values.sort_unstable() on integers: ascending order
RECURSIVE sort_unstable(_)
sort_unstable(values) ==
    IF values = << >> THEN << >>
    ELSE InsertSorted(Head(values), sort_unstable(Tail(values)))

SeqMin(values) == CHOOSE x \in { values[i] : i \in 1..Len(values) } :
                      \A j \in 1..Len(values) : x <= values[j]
SeqMax(values) == CHOOSE x \in { values[i] : i \in 1..Len(values) } :
                      \A j \in 1..Len(values) : x >= values[j]

\* (percent * n) as usize and ((1.0 - percent) * n) as usize
TrimStart(n) == (TrimPercent * n) \div 100
TrimEnd(n) == ((100 - TrimPercent) * n) \div 100

\* the body of the loop over the live store: one FunctionAggregateStatistics
aggregate_all_values(symbol, samples) ==
    LET values == [i \in 1..Len(samples) |-> into_u128(samples[i].cumulative)]
        min == IF Len(values) < MinSamples THEN Head(values) ELSE SeqMin(values)
        max == IF Len(values) < MinSamples THEN Head(values) ELSE SeqMax(values)
    IN [symbol |-> symbol, min |-> min, max |-> max, mean |-> min + (max - min) \div 2]
aggregate(symbol, samples) ==
    LET values == [i \in 1..Len(samples) |-> into_u128(samples[i].cumulative)]
        kept == SubSeq(sort_unstable(values), TrimStart(Len(values)) + 1, TrimEnd(Len(values)))
        min == IF Len(values) < MinSamples THEN Head(values) ELSE SeqMin(kept)
        max == IF Len(values) < MinSamples THEN Head(values) ELSE SeqMax(kept)
    IN [symbol |-> symbol, min |-> min, max |-> max, mean |-> min + (max - min) \div 2]

\* the stats Vec of Profiler::update, one entry per live symbol
FunctionAggregateStatistics(m) == [s \in DOMAIN m |-> aggregate(s, m[s])]

\* stats.iter().min_by_key(|stats| stats.mean): the first of the smallest,
\* the map iterating in key order
smallest_runtime(stats) ==
    CHOOSE s \in DOMAIN stats :
        /\ \A t \in DOMAIN stats : stats[s].mean <= stats[t].mean
        /\ \A t \in DOMAIN stats : stats[t].mean = stats[s].mean => s <= t

should_blacklist_le(stats) ==
    \A t \in DOMAIN stats \ {smallest_runtime(stats)} :
        stats[smallest_runtime(stats)].max <= stats[t].min
should_blacklist(stats) ==
    \A t \in DOMAIN stats \ {smallest_runtime(stats)} :
        stats[smallest_runtime(stats)].max < stats[t].min

\* the symbols Profiler::update hands to add_to_blacklist
racing_round(m) ==
    LET stats == FunctionAggregateStatistics(m) IN
    IF DOMAIN m = {} THEN {}
    ELSE IF Cardinality(DOMAIN m) = 1 THEN DOMAIN m
    ELSE IF should_blacklist(stats) THEN {smallest_runtime(stats)}
    ELSE {}

\* RacingAlgorithm::update: the symbols it returns and the flag it leaves
RacingAlgorithm_update_ignore_flag(disabled, samples) ==
    LET stats == FunctionAggregateStatistics(samples) IN
    IF DOMAIN samples = {} THEN [blacklist |-> {}, disable_updates |-> disabled]
    ELSE IF Cardinality(DOMAIN samples) = 1
    THEN [blacklist |-> DOMAIN samples, disable_updates |-> disabled]
    ELSE IF should_blacklist(stats)
    THEN [blacklist |-> {smallest_runtime(stats)}, disable_updates |-> disabled]
    ELSE [blacklist |-> {}, disable_updates |-> TRUE]
RacingAlgorithm_update_never_disable(disabled, samples) ==
    LET stats == FunctionAggregateStatistics(samples) IN
    IF disabled THEN [blacklist |-> {}, disable_updates |-> disabled]
    ELSE IF DOMAIN samples = {} THEN [blacklist |-> {}, disable_updates |-> disabled]
    ELSE IF Cardinality(DOMAIN samples) = 1
    THEN [blacklist |-> DOMAIN samples, disable_updates |-> disabled]
    ELSE IF should_blacklist(stats)
    THEN [blacklist |-> {smallest_runtime(stats)}, disable_updates |-> disabled]
    ELSE [blacklist |-> {}, disable_updates |-> disabled]
RacingAlgorithm_update(disabled, samples) ==
    LET stats == FunctionAggregateStatistics(samples) IN
    IF disabled THEN [blacklist |-> {}, disable_updates |-> disabled]
    ELSE IF DOMAIN samples = {} THEN [blacklist |-> {}, disable_updates |-> disabled]
    ELSE IF Cardinality(DOMAIN samples) = 1
    THEN [blacklist |-> DOMAIN samples, disable_updates |-> disabled]
    ELSE IF should_blacklist(stats)
    THEN [blacklist |-> {smallest_runtime(stats)}, disable_updates |-> disabled]
    ELSE [blacklist |-> {}, disable_updates |-> TRUE]

\* add_to_blacklist for every symbol of a set (at most one for update, the
\* keys of the live store for get_statistics)
RECURSIVE add_all_to_blacklist(_, _)
add_all_to_blacklist(st, symbols) ==
    IF symbols = {} THEN st
    ELSE LET key == CHOOSE k \in symbols : \A o \in symbols : k <= o
         IN add_all_to_blacklist(add_to_blacklist(st, key), symbols \ {key})

\* ------------------------------------------------------ get_statistics
RECURSIVE SumCumulative(_)
SumCumulative(samples) ==
    IF samples = << >> THEN 0
    ELSE into_u128(Head(samples).cumulative) + SumCumulative(Tail(samples))

SumTotal_cumulative(samples) == SumCumulative(samples)
RECURSIVE SumTotal(_)
SumTotal(samples) ==
    IF samples = << >> THEN 0
    ELSE into_u128(Head(samples).total) + SumTotal(Tail(samples))

FunctionStatistics(name, samples) ==
    [name |-> name, num_calls |-> Len(samples),
     total |-> SumTotal(samples), cumulative |-> SumCumulative(samples)]

\* ------------------------------------------------------------ the clock
\* the readings counter.read() may return now
Readings == {v \in clock..(clock + MaxStep) : v <= MaxClock}

\* --------------------------------------------------------------- ghosts
\* moved: the symbols the handler passed to add_to_blacklist; repeat: the
\* handler that ran before was the same one, with the same argument
Op(op, name, moved) ==
    [op |-> op, name |-> name, moved |-> moved,
     repeat |-> (last_op.op = op /\ last_op.name = name)]
FirstOp(op, name) == [op |-> op, name |-> name, moved |-> {}, repeat |-> FALSE]
Frame(name, pushed, entry) ==
    [name |-> name, pushed |-> pushed, entry |-> entry, child |-> 0]
\* the return event closes the innermost open call of the host
Matches(name) == frames # << >> /\ Last(frames).name = name
AllNames == Names \cup { RaceNames[i] : i \in 1..Len(RaceNames) }
NoPairs == [n \in AllNames |-> 0]
\* the pair count after an event that leaves in_sync as sync and the blacklist as bl
CountPairs(sync, bl, p) == IF sync /\ bl = {} THEN p ELSE NoPairs
\* the innermost open frame that has a stopwatch, 0 when there is none
InnermostPushed(fs) ==
    IF \E i \in 1..Len(fs) : fs[i].pushed
    THEN CHOOSE i \in 1..Len(fs) : fs[i].pushed /\ \A j \in (i + 1)..Len(fs) : ~fs[j].pushed
    ELSE 0
\* a measured call returned to the frames fs: its cumulative is a child's cost
\* of the innermost measured caller
AddChild(fs, cumulative) ==
    IF InnermostPushed(fs) = 0 THEN fs
    ELSE [fs EXCEPT ![InnermostPushed(fs)].child = @ + cumulative]
Init ==
    /\ clock = 0
    /\ interner = << >>
    /\ blacklist = {}
    /\ stack = << >>
    /\ times = EmptyMap
    /\ previous_times = EmptyMap
    /\ c_enter_count = None
    /\ disable_updates = FALSE
    /\ panicked = FALSE
    /\ statistics = None
    /\ flushed = FALSE
    /\ last_op = FirstOp("new", "")
    /\ calls = 0
    /\ frames = << >>
    /\ native_open = None
    /\ in_sync = TRUE
    /\ pairs = NoPairs

\* Profiler::on_call
on_call(name) ==
    LET symbol == SymbolOf(interner, name) IN
    /\ ~panicked
    /\ UNCHANGED disable_updates
    /\ calls < MaxCalls
    /\ calls' = calls + 1
    /\ interner' = get_or_intern(interner, name)
    /\ statistics' = None
    /\ last_op' = Op("on_call", name, {})
    /\ UNCHANGED << blacklist, times, previous_times, c_enter_count, panicked,
                    flushed, native_open, in_sync, pairs >>
    /\ IF blacklist_contains(blacklist, symbol)
       THEN /\ frames' = Append(frames, Frame(name, FALSE, 0))
            /\ UNCHANGED << clock, stack >>
       ELSE \E value \in Readings :
            /\ clock' = value
            /\ stack' = Append(IF stack # << >>
                               THEN [stack EXCEPT ![Len(stack)] = pause(@, value)]
                               ELSE stack,
                               Stopwatch_new(value))
            /\ frames' = Append(frames, Frame(name, TRUE, value))

\* Vec::pop on the stack: the Option it returns
pop_or_default(s) == IF s = << >> THEN Some(Stopwatch_new(0)) ELSE Some(Last(s))
pop(s) == IF s = << >> THEN None ELSE Some(Last(s))

\* Profiler::on_return
on_return(name) ==
    LET symbol == SymbolOf(interner, name)
        matched == Matches(name)
        up == IF matched THEN Front(frames) ELSE frames
        counted == IF matched THEN [pairs EXCEPT ![name] = @ + 1] ELSE pairs
    IN
    /\ ~panicked
    /\ UNCHANGED disable_updates
    /\ interner' = get_or_intern(interner, name)
    /\ statistics' = None
    /\ last_op' = Op("on_return", name, {})
    /\ UNCHANGED << blacklist, previous_times, c_enter_count, panicked, flushed,
                    calls, native_open >>
    /\ IF blacklist_contains(blacklist, symbol)
       THEN /\ UNCHANGED << clock, stack, times >>
            /\ frames' = up
            /\ in_sync' = (in_sync /\ matched /\ ~Last(frames).pushed)
            /\ pairs' = NoPairs
       ELSE \E value \in Readings :
            LET popped == pop(stack) # None
                stats == stop(pop(stack)[1], value, value)
                rest == IF popped THEN Front(stack) ELSE stack
            IN
            /\ clock' = value
            /\ times' = IF popped THEN record_statistics(times, symbol, stats) ELSE times
            /\ stack' = IF rest # << >>
                        THEN [rest EXCEPT ![Len(rest)] = unpause(@, value)]
                        ELSE rest
            /\ frames' = IF matched /\ popped THEN AddChild(up, stats.cumulative) ELSE up
            /\ in_sync' = (in_sync /\ matched /\ Last(frames).pushed)
            /\ pairs' = CountPairs(in_sync /\ matched /\ Last(frames).pushed, blacklist, counted)

\* Profiler::on_c_call
on_c_call(name) ==
    LET symbol == SymbolOf(interner, name) IN
    /\ ~panicked
    /\ UNCHANGED disable_updates
    /\ calls < MaxCalls
    /\ calls' = calls + 1
    /\ interner' = get_or_intern(interner, name)
    /\ statistics' = None
    /\ last_op' = Op("on_c_call", name, {})
    /\ native_open' = Some(name)
    /\ UNCHANGED << blacklist, stack, times, previous_times, panicked, flushed,
                    frames, in_sync, pairs >>
    /\ IF blacklist_contains(blacklist, symbol)
       THEN UNCHANGED << clock, c_enter_count >>
       ELSE \E value \in Readings :
            /\ clock' = value
            /\ c_enter_count' = Some(value)

\* Profiler::on_c_return
on_c_return(name) ==
    LET symbol == SymbolOf(interner, name) IN
    /\ ~panicked
    /\ UNCHANGED disable_updates
    /\ interner' = get_or_intern(interner, name)
    /\ statistics' = None
    /\ native_open' = None
    /\ UNCHANGED << stack, flushed, calls, frames, in_sync >>
    /\ IF blacklist_contains(blacklist, symbol)
       THEN /\ last_op' = Op("on_c_return", name, {})
            /\ UNCHANGED << clock, blacklist, times, previous_times, c_enter_count,
                            panicked, pairs >>
       ELSE \E value \in Readings :
            /\ clock' = value
            /\ IF c_enter_count = None
               THEN \* self.c_enter_count.unwrap() panics, the counter already read
                    /\ panicked' = TRUE
                    /\ last_op' = Op("on_c_return", name, {})
                    /\ UNCHANGED << blacklist, times, previous_times, c_enter_count, pairs >>
               ELSE LET cumulative == value - c_enter_count[1]
                        stats == [total |-> 0, cumulative |-> cumulative]
                        st == add_to_blacklist(
                                [Stores EXCEPT !.previous_times =
                                    MapInsert(previous_times, symbol, << stats >>)],
                                symbol)
                    IN
                    /\ times' = st.times
                    /\ previous_times' = st.previous_times
                    /\ blacklist' = st.blacklist
                    /\ c_enter_count' = None
                    /\ last_op' = Op("on_c_return", name, {symbol})
                    /\ pairs' = NoPairs
                    /\ UNCHANGED panicked

\* Profiler::update
update ==
    LET decided == racing_round(times)
        st == add_all_to_blacklist(Stores, decided)
    IN
    /\ ~panicked
    /\ UNCHANGED disable_updates
    /\ times' = st.times
    /\ previous_times' = st.previous_times
    /\ blacklist' = st.blacklist
    /\ statistics' = None
    /\ last_op' = Op("update", "", decided)
    /\ pairs' = CountPairs(in_sync, st.blacklist, pairs)
    /\ UNCHANGED << clock, interner, stack, c_enter_count, panicked, flushed,
                    calls, frames, native_open, in_sync >>

\* Profiler::get_statistics
get_statistics ==
    LET st == add_all_to_blacklist(Stores, DOMAIN times) IN
    /\ ~panicked
    /\ UNCHANGED disable_updates
    /\ times' = st.times
    /\ previous_times' = st.previous_times
    /\ blacklist' = st.blacklist
    /\ statistics' = Some({ FunctionStatistics(resolve(interner, sym), st.previous_times[sym]) :
                              sym \in DOMAIN st.previous_times })
    /\ flushed' = TRUE
    /\ last_op' = Op("get_statistics", "", DOMAIN times)
    /\ pairs' = CountPairs(in_sync, st.blacklist, pairs)
    /\ UNCHANGED << clock, interner, stack, c_enter_count, panicked,
                    calls, frames, native_open, in_sync >>

\* The event source delivers strictly nested Call/Return events; a native
\* call is opaque, so its return is the next event.  update() and
\* get_statistics() may be called at any time.
Next ==
    \/ \E name \in Names : native_open = None /\ on_call(name)
    \/ \E name \in Names : native_open = None /\ Matches(name) /\ on_return(name)
    \/ \E name \in NativeNames : native_open = None /\ on_c_call(name)
    \/ \E name \in NativeNames : native_open = Some(name) /\ on_c_return(name)
    \/ native_open = None /\ update
    \/ native_open = None /\ get_statistics

Spec == Init /\ [][Next]_vars

\* Profiler::update with the decision left to RacingAlgorithm::update, given
\* the interner and the live store: every symbol it returns is handed to
\* add_to_blacklist, as Profiler::update does with its own decision
algorithm_update ==
    LET round == RacingAlgorithm_update(disable_updates, times)
        st == add_all_to_blacklist(Stores, round.blacklist)
    IN
    /\ ~panicked
    /\ disable_updates' = round.disable_updates
    /\ times' = st.times
    /\ previous_times' = st.previous_times
    /\ blacklist' = st.blacklist
    /\ statistics' = None
    /\ last_op' = Op("algorithm_update", "", round.blacklist)
    /\ pairs' = CountPairs(in_sync, st.blacklist, pairs)
    /\ UNCHANGED << clock, interner, stack, c_enter_count, panicked, flushed,
                    calls, frames, native_open, in_sync >>

\* The nested event source, the update rounds run by RacingAlgorithm
NextAlgo ==
    \/ \E name \in Names : native_open = None /\ on_call(name)
    \/ \E name \in Names : native_open = None /\ Matches(name) /\ on_return(name)
    \/ \E name \in NativeNames : native_open = None /\ on_c_call(name)
    \/ \E name \in NativeNames : native_open = Some(name) /\ on_c_return(name)
    \/ native_open = None /\ algorithm_update

SpecAlgo == Init /\ [][NextAlgo]_vars

\* Strictly nested Call/Return events only, interleaved with update() and
\* get_statistics(): no native events
NextNested ==
    \/ \E name \in Names : on_call(name)
    \/ \E name \in Names : Matches(name) /\ on_return(name)
    \/ update
    \/ get_statistics

SpecNested == Init /\ [][NextNested]_vars

\* impl Lifecycle for Profiler.  enable() and disable() delegate to the
\* counter, whose own state is not part of the profiler's (a stopped
\* counter repeats its reading, which Readings allows); reset() is the
\* default method of the trait, with an empty body.
enable ==
    /\ ~panicked
    /\ UNCHANGED disable_updates
    /\ statistics' = None
    /\ last_op' = Op("enable", "", {})
    /\ UNCHANGED << clock, interner, blacklist, stack, times, previous_times,
                    c_enter_count, panicked, flushed, calls, frames, native_open,
                    in_sync, pairs >>

disable ==
    /\ ~panicked
    /\ UNCHANGED disable_updates
    /\ statistics' = None
    /\ last_op' = Op("disable", "", {})
    /\ UNCHANGED << clock, interner, blacklist, stack, times, previous_times,
                    c_enter_count, panicked, flushed, calls, frames, native_open,
                    in_sync, pairs >>

reset ==
    /\ ~panicked
    /\ UNCHANGED disable_updates
    /\ statistics' = None
    /\ last_op' = Op("reset", "", {})
    /\ UNCHANGED << clock, interner, blacklist, stack, times, previous_times,
                    c_enter_count, panicked, flushed, calls, frames, native_open,
                    in_sync, pairs >>

\* The nested event source, with the lifecycle operations called at any time
NextLife ==
    \/ \E name \in Names : native_open = None /\ on_call(name)
    \/ \E name \in Names : native_open = None /\ Matches(name) /\ on_return(name)
    \/ \E name \in NativeNames : native_open = None /\ on_c_call(name)
    \/ \E name \in NativeNames : native_open = Some(name) /\ on_c_return(name)
    \/ native_open = None /\ update
    \/ native_open = None /\ enable
    \/ native_open = None /\ disable
    \/ native_open = None /\ reset

SpecLife == Init /\ [][NextLife]_vars

\* An event source that does not keep the nesting: a Return or a
\* NativeReturn may arrive for any name at any time, matched or not.
NextLoose ==
    \/ \E name \in Names : native_open = None /\ calls < MaxLooseCalls /\ on_call(name)
    \/ \E name \in Names : native_open = None /\ on_return(name)
    \/ \E name \in NativeNames :
            native_open = None /\ calls < MaxLooseCalls /\ on_c_call(name)
    \/ \E name \in Names : on_c_return(name)

SpecLoose == Init /\ [][NextLoose]_vars

\* ------------------------------------------------------ racing snapshots
\* A profiler that has recorded leaf calls (total = cumulative) of two or
\* three functions and is idle: the stack is empty, nothing is blacklisted.
RaceVals == { 10 * i : i \in 1..MaxRaceVal }
RaceLens == { MinSamples - 1, MinSamples, MaxRaceLen }
\* k times a, then b up to length n
TwoBlocks(a, b, k, n) == [i \in 1..n |-> IF i <= k THEN a ELSE b]
RaceMenu(lens) ==
    { TwoBlocks(a, b, k, n) : a \in RaceVals, b \in RaceVals, k \in {0, 1}, n \in lens }
      \cup { TwoBlocks(a, b, n \div 2, n) : a \in RaceVals, b \in RaceVals, n \in lens }
LeafSamples(values) ==
    [i \in 1..Len(values) |-> [total |-> values[i], cumulative |-> values[i]]]
RaceStore(vf, vg, vh) ==
    IF vh = << >>
    THEN << LeafSamples(vf), LeafSamples(vg) >>
    ELSE << LeafSamples(vf), LeafSamples(vg), LeafSamples(vh) >>

InitRace ==
    \E vf \in RaceMenu(RaceLens), vg \in RaceMenu({MinSamples, MaxRaceLen}),
       vh \in { << >>, << 10 >>, << 10 * MaxRaceVal >> } :
        /\ times = RaceStore(vf, vg, vh)
        /\ interner = SubSeq(RaceNames, 1, Len(RaceStore(vf, vg, vh)))
        /\ clock = SumCumulative(LeafSamples(vf \o vg \o vh))
        /\ calls = Len(vf) + Len(vg) + Len(vh)
        /\ pairs = [n \in AllNames |->
                        IF n = "f" THEN Len(vf) ELSE IF n = "g" THEN Len(vg) ELSE Len(vh)]
        /\ last_op = FirstOp("on_return", "f")
        /\ blacklist = {}
        /\ stack = << >>
        /\ previous_times = EmptyMap
        /\ c_enter_count = None
        /\ disable_updates = FALSE
        /\ panicked = FALSE
        /\ statistics = None
        /\ flushed = FALSE
        /\ frames = << >>
        /\ native_open = None
        /\ in_sync = TRUE

NextRace == update

SpecRace == InitRace /\ [][NextRace]_vars

\* ------------------------------------------- snapshots with outliers
\* A profiler that has recorded calls of f, one leaf call of g and leaf
\* calls of h, and is idle.  The calls of f cost base, but for one call that
\* cost lo and one that cost hi, in any order of the three; every second call
\* of f called h, which cost CalleeCost, so that call's total is below its
\* cumulative.
EstimateVals == RaceVals \cup {5}
Outliers(lo, hi, base, p, q, n) ==
    [i \in 1..n |-> IF i = p THEN lo ELSE IF i = q THEN hi ELSE base]
EstimateMenu ==
    { Outliers(lo, hi, base, p, q, n) :
        lo \in EstimateVals, hi \in EstimateVals, base \in EstimateVals,
        p \in {1, 2}, q \in {3, MinSamples - 1}, n \in RaceLens }
NestedSamples(values) ==
    [i \in 1..Len(values) |->
        [total |-> IF i % 2 = 0 THEN values[i] - CalleeCost ELSE values[i],
         cumulative |-> values[i]]]

InitEstimate ==
    \E vf \in EstimateMenu, r \in EstimateVals :
        /\ times = << NestedSamples(vf), LeafSamples(<< r >>),
                      LeafSamples([i \in 1..(Len(vf) \div 2) |-> CalleeCost]) >>
        /\ interner = RaceNames
        /\ clock = SumCumulative(LeafSamples(vf)) + r
        /\ calls = Len(vf) + Len(vf) \div 2 + 1
        /\ pairs = [n \in AllNames |->
                        IF n = "f" THEN Len(vf) ELSE IF n = "g" THEN 1 ELSE Len(vf) \div 2]
        /\ last_op = FirstOp("on_return", "g")
        /\ blacklist = {}
        /\ stack = << >>
        /\ previous_times = EmptyMap
        /\ c_enter_count = None
        /\ disable_updates = FALSE
        /\ panicked = FALSE
        /\ statistics = None
        /\ flushed = FALSE
        /\ frames = << >>
        /\ native_open = None
        /\ in_sync = TRUE

\* rounds of either implementation of the racing decision
NextEstimate ==
    \/ update
    \/ algorithm_update

SpecEstimate == InitEstimate /\ [][NextEstimate]_vars

\* =========================================================== properties
\* the step just taken ran the handler op
Ran(op) == last_op'.op = op
Sym(name) == IndexOf(interner, name)
Live(m, symbol) == IF symbol \in DOMAIN m THEN m[symbol] ELSE << >>

C2_StackDiscipline ==
    (in_sync /\ blacklist = {}) =>
        /\ \A name \in Names : Len(Live(times, Sym(name))) = pairs[name]
        /\ \A symbol \in DOMAIN times : symbol \in 1..Len(interner)
        /\ Len(stack) = Len(frames)
        /\ frames = << >> => stack = << >>

\* three pairs, two of f and one of g, all returned
C2_Witness ==
    /\ in_sync /\ blacklist = {} /\ frames = << >> /\ stack = << >>
    /\ pairs["f"] = 2 /\ pairs["g"] = 1
    /\ Len(Live(times, Sym("f"))) = 2 /\ Len(Live(times, Sym("g"))) = 1

\* C3: an on_call, on_return, on_c_call or on_c_return for a symbol that is
\* in the blacklist changes neither the stack, nor the live store, nor the
\* finalized store, nor the blacklist, nor the pending native-entry reading.
C3_BlacklistIdempotence ==
    [][ ( /\ last_op'.op \in {"on_call", "on_return", "on_c_call", "on_c_return"}
          /\ Sym(last_op'.name) \in blacklist ) =>
            UNCHANGED << stack, times, previous_times, blacklist, c_enter_count >> ]_vars

\* a return of a blacklisted function found a stopwatch on the stack and left it
C3_Witness ==
    /\ last_op.op = "on_return"
    /\ Sym(last_op.name) \in blacklist
    /\ stack # << >>

\* C4: get_statistics() leaves the live store empty, puts every symbol that
\* had live samples in the blacklist, appends each such symbol's live samples,
\* in order, after the samples it already had in the finalized store, and
\* leaves the stack unchanged.
C4_GetStatisticsFlush ==
    [][ Ran("get_statistics") =>
            /\ times' = EmptyMap
            /\ DOMAIN times \subseteq blacklist'
            /\ \A s \in DOMAIN times :
                /\ s \in DOMAIN previous_times'
                /\ previous_times'[s] = Live(previous_times, s) \o times[s]
            /\ stack' = stack ]_vars

\* a flush moved two samples of one function while another call was open
C4_Witness ==
    /\ last_op.op = "get_statistics"
    /\ stack # << >>
    /\ times = EmptyMap
    /\ \E s \in last_op.moved : s \in blacklist /\ Len(previous_times[s]) = 2

\* C5 as stated: once get_statistics() has been called, no on_call/on_return
\* event records a new Sample, whatever its symbol.
C5_Original ==
    [][ (flushed /\ last_op'.op \in {"on_call", "on_return"}) => times' = times ]_vars

\* C5, amended: get_statistics() blacklists every symbol that has live
\* samples, the blacklist never loses a symbol, and an on_call/on_return for
\* a blacklisted symbol records no Sample; while a measured call of a symbol
\* that is not blacklisted still records its Sample when it returns after the
\* flush.
C5_FlushEndsLiveSymbols ==
    [][ /\ Ran("get_statistics") => DOMAIN times \subseteq blacklist'
        /\ blacklist \subseteq blacklist'
        /\ ( /\ flushed
             /\ last_op'.op \in {"on_call", "on_return"}
             /\ Sym(last_op'.name) \in blacklist ) => times' = times
        /\ ( /\ flushed
             /\ Ran("on_return")
             /\ in_sync'
             /\ Last(frames).pushed ) =>
                 Len(Live(times', Sym(last_op'.name)))
                     = Len(Live(times, Sym(last_op'.name))) + 1 ]_vars

\* after a flush a function that had live samples was called again and returned
C5_Witness ==
    /\ flushed
    /\ last_op.op = "on_return"
    /\ Sym(last_op.name) \in blacklist
    /\ previous_times[Sym(last_op.name)] # << >>
    /\ times = EmptyMap

\* C6: a get_statistics() that directly follows a get_statistics() returns
\* the same set of records and changes no profiler state.
C6_FlushIdempotence ==
    [][ (last_op.op = "get_statistics" /\ Ran("get_statistics")) =>
            /\ statistics' = statistics
            /\ UNCHANGED << clock, interner, blacklist, stack, times,
                            previous_times, c_enter_count, panicked >> ]_vars

\* the second of two flushes in succession returned records of measured calls
C6_Witness ==
    /\ last_op.op = "get_statistics"
    /\ last_op.repeat
    /\ statistics # None
    /\ \E r \in statistics[1] : r.num_calls > 0 /\ r.cumulative > 0

\* the sum of the total values, and of the cumulative values, of the first
\* n Samples of a sequence
RECURSIVE TotalOfFirst(_, _)
TotalOfFirst(samples, n) ==
    IF n = 0 THEN 0 ELSE TotalOfFirst(samples, n - 1) + samples[n].total
RECURSIVE CumulativeOfFirst(_, _)
CumulativeOfFirst(samples, n) ==
    IF n = 0 THEN 0 ELSE CumulativeOfFirst(samples, n - 1) + samples[n].cumulative

\* C7: get_statistics() returns exactly one record per symbol of the finalized
\* store as the flush leaves it, under the symbol's name, with num_calls = the
\* number of the symbol's Samples, live and finalized together, total = the
\* sum of their total values and cumulative = the sum of their cumulative
\* values; Samples (5,8),(3,6) give num_calls 2, total 8, cumulative 14.
C7_RoundTripAggregation ==
    [][ Ran("get_statistics") =>
            LET all(s) == Live(previous_times, s) \o Live(times, s)
                expected(s) == [name |-> interner[s],
                                num_calls |-> Len(all(s)),
                                total |-> TotalOfFirst(all(s), Len(all(s))),
                                cumulative |-> CumulativeOfFirst(all(s), Len(all(s)))]
            IN /\ statistics' # None
               /\ statistics'[1] = { expected(s) : s \in DOMAIN previous_times' }
               /\ Cardinality(statistics'[1]) = Cardinality(DOMAIN previous_times')
               /\ DOMAIN previous_times' = DOMAIN previous_times \cup DOMAIN times
               /\ FunctionStatistics("f", << [total |-> 5, cumulative |-> 8],
                                            [total |-> 3, cumulative |-> 6] >>)
                      = [name |-> "f", num_calls |-> 2, total |-> 8, cumulative |-> 14] ]_vars

\* the records of two functions, one called twice with self time below its
\* inclusive time
C7_Witness ==
    /\ last_op.op = "get_statistics"
    /\ statistics # None
    /\ Cardinality(statistics[1]) = 2
    /\ \E r \in statistics[1] : r.num_calls = 2 /\ r.total < r.cumulative

\* the symbol of name once the handler has interned it
SymAfter(name) == IndexOf(interner', name)

\* C8: on_c_call for a symbol that is not blacklisted stores the reading it
\* takes; the on_c_return that follows makes the symbol's finalized entry one
\* Sample with total = 0 and cumulative = reading at the return - reading at
\* the call, followed by the live samples the symbol had as a profiled
\* function (none for a symbol only ever called natively), so the symbol has
\* exactly one Sample more than before; it adds the symbol to the blacklist
\* and clears the stored reading; a native call or return for a symbol already
\* blacklisted adds no Sample.
C8_NativeOneShot ==
    [][ /\ (Ran("on_c_call") /\ SymAfter(last_op'.name) \notin blacklist) =>
                /\ c_enter_count' = Some(clock')
                /\ UNCHANGED << times, previous_times, blacklist >>
        /\ (Ran("on_c_return") /\ SymAfter(last_op'.name) \notin blacklist) =>
                LET s == SymAfter(last_op'.name) IN
                /\ c_enter_count # None
                /\ s \in DOMAIN previous_times'
                /\ previous_times'[s]
                       = << [total |-> 0, cumulative |-> clock' - c_enter_count[1]] >>
                             \o Live(times, s)
                /\ Len(previous_times'[s]) + Len(Live(times', s))
                       = Len(Live(previous_times, s)) + Len(Live(times, s)) + 1
                /\ s \in blacklist'
                /\ s \notin DOMAIN times'
                /\ c_enter_count' = None
        /\ ( /\ last_op'.op \in {"on_c_call", "on_c_return"}
             /\ SymAfter(last_op'.name) \in blacklist ) =>
                UNCHANGED << times, previous_times, blacklist, c_enter_count >> ]_vars

\* a native function took time and was entered once more after its return
C8_Witness ==
    /\ last_op.op = "on_c_call"
    /\ Sym(last_op.name) \in blacklist
    /\ previous_times[Sym(last_op.name)] = << [total |-> 0, cumulative |-> 1] >>
    /\ c_enter_count = None

\* C10: for every symbol the racing round returns, update() removes its entry
\* from the live store, appends those samples after the samples the symbol
\* already has in the finalized store and adds it to the blacklist; the live
\* and the finalized samples of every other symbol and the stack are
\* unchanged; on an empty live store update() changes nothing.
C10_UpdateEffectAndFrame ==
    [][ Ran("update") =>
            LET decided == racing_round(times) IN
            /\ decided \subseteq DOMAIN times
            /\ \A s \in decided :
                /\ s \in DOMAIN previous_times'
                /\ previous_times'[s] = Live(previous_times, s) \o times[s]
            /\ blacklist' = blacklist \cup decided
            /\ DOMAIN times' = DOMAIN times \ decided
            /\ \A s \in DOMAIN times' : times'[s] = times[s]
            /\ DOMAIN previous_times' = DOMAIN previous_times \cup decided
            /\ \A s \in DOMAIN previous_times \ decided : previous_times'[s] = previous_times[s]
            /\ stack' = stack
            /\ times = EmptyMap =>
                   UNCHANGED << clock, interner, blacklist, stack, times,
                                previous_times, c_enter_count, panicked >> ]_vars

\* a round blacklisted one of two live functions while a call was open
C10_Witness ==
    /\ last_op.op = "update"
    /\ last_op.moved # {}
    /\ \A s \in last_op.moved : s \in blacklist /\ previous_times[s] # << >>
    /\ times # EmptyMap
    /\ stack # << >>

\* The trimmed range of a symbol's live samples, by rank: with fewer than
\* MinSamples samples the first value is both bounds; otherwise a value is
\* kept when, in ascending order, it fills one of the positions left after
\* dropping the lowest 5% and the highest 5% of the positions.
ValuesOf(s) == [i \in 1..Len(times[s]) |-> times[s][i].cumulative]
Below(s, v) == Cardinality({ i \in 1..Len(times[s]) : ValuesOf(s)[i] < v })
UpTo(s, v) == Cardinality({ i \in 1..Len(times[s]) : ValuesOf(s)[i] <= v })
Kept(s) ==
    LET n == Len(times[s]) IN
    IF n < MinSamples THEN { ValuesOf(s)[1] }
    ELSE { v \in { ValuesOf(s)[i] : i \in 1..n } :
             /\ Below(s, v) + 1 <= (95 * n) \div 100
             /\ UpTo(s, v) >= (5 * n) \div 100 + 1 }
TrimmedMin(s) == LET kept == Kept(s) IN CHOOSE v \in kept : \A w \in kept : v <= w
TrimmedMax(s) == LET kept == Kept(s) IN CHOOSE v \in kept : \A w \in kept : v >= w
Midpoint(s) ==
    LET lo == TrimmedMin(s)
        hi == TrimmedMax(s)
    IN lo + (hi - lo) \div 2
Separated(s) ==
    LET hi == TrimmedMax(s) IN \A t \in DOMAIN times \ {s} : hi < TrimmedMin(t)

C11_UnmatchedReturn ==
    [][ ( /\ Ran("on_return")
          /\ SymAfter(last_op'.name) \notin blacklist
          /\ stack = << >> ) =>
            /\ ~panicked'
            /\ stack' = << >>
            /\ UNCHANGED << times, previous_times, blacklist, c_enter_count >> ]_vars

\* a Return arrived on an empty stack for a function that is not blacklisted
\* and has no Sample, while another function has one
C11_Witness ==
    /\ last_op.op = "on_return"
    /\ ~panicked
    /\ stack = << >>
    /\ Sym(last_op.name) \notin blacklist
    /\ Sym(last_op.name) \notin DOMAIN times
    /\ times # EmptyMap

\* C12 as stated: on_c_return for a symbol that is not blacklisted, with no
\* pending native-entry reading, does not fail, records no Sample and leaves
\* the stores and the blacklist unchanged.
C12_Original ==
    [][ ( /\ Ran("on_c_return")
          /\ SymAfter(last_op'.name) \notin blacklist
          /\ c_enter_count = None ) =>
            /\ ~panicked'
            /\ UNCHANGED << times, previous_times, blacklist >> ]_vars

\* C13: every entry of the live store and of the finalized store holds at
\* least one Sample, and no record get_statistics() returns has num_calls = 0.
C13_NoEmptyEntry ==
    /\ \A s \in DOMAIN times : Len(times[s]) >= 1
    /\ \A s \in DOMAIN previous_times : Len(previous_times[s]) >= 1
    /\ statistics # None => \A r \in statistics[1] : r.num_calls >= 1

\* the records of a profiled function and of a native function
C13_Witness ==
    /\ statistics # None
    /\ Cardinality(statistics[1]) = 2
    /\ \E r \in statistics[1] : r.total = 0 /\ r.cumulative > 0
    /\ \E r \in statistics[1] : r.total > 0

\* C14 as stated: reset() leaves the stack, the live store, the finalized
\* store and the blacklist empty and the symbol table as new.
C14_Original ==
    [][ Ran("reset") =>
            /\ stack' = << >>
            /\ times' = EmptyMap
            /\ previous_times' = EmptyMap
            /\ blacklist' = {}
            /\ interner' = << >> ]_vars

\* C15 as stated: disable() leaves the stack empty, and the on_return that
\* follows it records no Sample (a Sample it recorded would come from a frame
\* pushed before the disable()).
C15_Original ==
    [][ /\ Ran("disable") => stack' = << >>
        /\ (last_op.op = "disable" /\ Ran("on_return")) => times' = times ]_vars

\* C16: no operation removes a symbol from the blacklist, so a symbol that
\* is blacklisted in some state is blacklisted in every later state.
C16_BlacklistMonotone ==
    [][ \A s \in blacklist : s \in blacklist' ]_vars

\* a second symbol joined the blacklist, by another operation than the first
C16_Witness ==
    /\ Cardinality(blacklist) = 2
    /\ last_op.op = "on_c_return"
    /\ last_op.moved # {}
    /\ \E s \in blacklist \ last_op.moved : \A i \in 1..Len(previous_times[s]) :
            previous_times[s][i].total > 0

\* a sequence is the beginning of another
IsPrefix(a, b) == Len(a) <= Len(b) /\ SubSeq(b, 1, Len(a)) = a

\* C17: for every symbol and every operation, the symbol's finalized Samples
\* before the operation are a prefix of its finalized Samples after it; a
\* native return overwrites no finalized Sample.
C17_FinalizedNeverShrinks ==
    [][ \A s \in DOMAIN previous_times :
            /\ s \in DOMAIN previous_times'
            /\ IsPrefix(previous_times[s], previous_times'[s]) ]_vars

\* a native return came for a function whose Samples were already finalized
C17_Witness ==
    /\ last_op.op = "on_c_return"
    /\ last_op.moved = {}
    /\ Sym(last_op.name) \in DOMAIN previous_times
    /\ \E i \in 1..Len(previous_times[Sym(last_op.name)]) :
            previous_times[Sym(last_op.name)][i].total > 0

RECURSIVE MeasuredEntries(_)
MeasuredEntries(fs) ==
    IF fs = << >> THEN << >>
    ELSE IF Last(fs).pushed
         THEN Append(MeasuredEntries(Front(fs)), Last(fs).entry)
         ELSE MeasuredEntries(Front(fs))
StackMirrorsNesting ==
    [i \in 1..Len(stack) |-> stack[i].start] = MeasuredEntries(frames)

\* C19 as stated: with strictly nested Call/Return events interleaved with
\* update() and get_statistics(), the stack holds exactly the stopwatches of
\* the open measured calls, in nesting order, and an on_return(name) that
\* records a Sample pops the stopwatch its on_call(name) pushed: the Sample's
\* cumulative is the reading at this return - the reading at that call.
C19_Original ==
    [][ /\ StackMirrorsNesting'
        /\ (Ran("on_return") /\ Sym(last_op'.name) \notin blacklist) =>
                LET s == Sym(last_op'.name) IN
                /\ Last(frames).pushed
                /\ s \in DOMAIN times'
                /\ Last(times'[s]).cumulative = clock' - Last(frames).entry ]_vars

\* C20 as stated: whenever an update round runs on a live store of exactly
\* one symbol, that symbol is blacklisted, whatever earlier rounds decided.
C20_Original ==
    [][ (Ran("algorithm_update") /\ Cardinality(DOMAIN times) = 1) =>
            /\ last_op'.moved = DOMAIN times
            /\ DOMAIN times \subseteq blacklist' ]_vars

\* C20, amended: an update round on a live store of exactly one symbol
\* blacklists that symbol, whatever its samples, unless the racing algorithm
\* has disabled itself in an earlier round; once it has, the round returns
\* no symbol and changes nothing, even for a single remaining symbol.
C20_SingleSymbol ==
    [][ (Ran("algorithm_update") /\ Cardinality(DOMAIN times) = 1) =>
            IF disable_updates
            THEN /\ last_op'.moved = {}
                 /\ UNCHANGED << times, previous_times, blacklist, disable_updates >>
            ELSE /\ last_op'.moved = DOMAIN times
                 /\ DOMAIN times \subseteq blacklist'
                 /\ times' = EmptyMap
                 /\ \A s \in DOMAIN times : previous_times'[s] = times[s]
                 /\ ~disable_updates' ]_vars

\* a round blacklisted the only live symbol, which had two samples, after an
\* earlier round had blacklisted another symbol
C20_Witness ==
    /\ last_op.op = "algorithm_update"
    /\ ~disable_updates
    /\ Cardinality(last_op.moved) = 1
    /\ Cardinality(blacklist) = 2
    /\ times = EmptyMap
    /\ \E s \in last_op.moved : Len(previous_times[s]) = 2

\* C21: a round of the racing algorithm over two or more live symbols, none
\* of them separated from all the others, returns no symbol and sets
\* disable_updates; the flag then stays set whatever happens, and every round
\* run with the flag set returns no symbol and leaves the stores alone,
\* whatever the live store holds.  A round that starts with the flag clear
\* and runs over an empty store, over a single symbol, or blacklists a
\* symbol, leaves the flag clear.  No other handler touches the flag.
C21_SelfDisabling ==
    [][ /\ disable_updates => disable_updates'
        /\ ~Ran("algorithm_update") => UNCHANGED disable_updates
        /\ Ran("algorithm_update") =>
            /\ disable_updates =>
                /\ last_op'.moved = {}
                /\ UNCHANGED << times, previous_times, blacklist >>
            /\ ( /\ ~disable_updates
                 /\ Cardinality(DOMAIN times) >= 2
                 /\ \A s \in DOMAIN times : ~Separated(s) ) =>
                /\ last_op'.moved = {}
                /\ UNCHANGED << times, previous_times, blacklist >>
                /\ disable_updates'
            /\ ( /\ ~disable_updates
                 /\ \/ Cardinality(DOMAIN times) <= 1
                    \/ last_op'.moved # {} ) => ~disable_updates'
      ]_vars

\* the algorithm has disabled itself, and a later round, run on a single
\* live symbol, has returned nothing
C21_Witness ==
    /\ last_op.op = "algorithm_update"
    /\ last_op.moved = {}
    /\ disable_updates
    /\ Cardinality(DOMAIN times) = 1

\* the round just run computed the estimates: it had two or more live
\* symbols, and the racing algorithm had not disabled itself
RoundEstimates ==
    /\ Cardinality(DOMAIN times) >= 2
    /\ Ran("update") \/ (Ran("algorithm_update") /\ ~disable_updates)

\* C22: the estimate a racing round computes for a live symbol with n
\* samples has, for n < 10, both bounds equal to the cumulative value of the
\* first recorded sample, and for n >= 10 the least and the greatest of the
\* cumulative values that, in ascending order, stand at the 0-based positions
\* floor(0.05 n) up to but excluding floor(0.95 n); min <= max; the mean is
\* min + (max - min) / 2 rounded down; totals play no part.  The round
\* blacklists a symbol exactly when that symbol's max is below every other
\* symbol's min.
C22_TrimmedRange ==
    [][ RoundEstimates =>
            \A s \in DOMAIN times :
                LET a == aggregate(s, times[s])
                    n == Len(times[s])
                IN
                /\ n < 10 => a.min = times[s][1].cumulative /\ a.max = times[s][1].cumulative
                /\ n >= 10 => a.min = TrimmedMin(s) /\ a.max = TrimmedMax(s)
                /\ a.min <= a.max
                /\ 2 * (a.mean - a.min) \in { a.max - a.min, a.max - a.min - 1 }
                /\ (s \in last_op'.moved) <=>
                       \A t \in DOMAIN times \ {s} : a.max < aggregate(t, times[t]).min
      ]_vars

\* a round blacklisted f, which had MaxRaceLen samples: one of them, dropped
\* with the highest 5%, cost more than g's only call, f's kept values had an
\* odd spread, and the totals of f's calls that had a callee differ from
\* their cumulative values
C22_Witness ==
    /\ last_op.moved = {1}
    /\ 1 \in DOMAIN previous_times
    /\ Len(previous_times[1]) = MaxRaceLen
    /\ DOMAIN times = {2}
    /\ \E i \in 1..MaxRaceLen : previous_times[1][i].cumulative > times[2][1].cumulative
    /\ \E i, j \in 1..MaxRaceLen :
           /\ previous_times[1][i].cumulative = 5
           /\ previous_times[1][j].cumulative = 10
           /\ previous_times[1][i].total # previous_times[1][i].cumulative

\* C23: in every reachable state the symbols that have an entry in the
\* finalized store are exactly the blacklisted symbols, and no blacklisted
\* symbol has an entry in the live store.
C23_StoreBlacklistConsistency ==
    /\ DOMAIN previous_times = blacklist
    /\ DOMAIN times \cap blacklist = {}

\* one symbol has been blacklisted with its samples finalized while another
\* is still live
C23_Witness ==
    /\ blacklist # {}
    /\ times # EmptyMap
    /\ \E s \in blacklist : previous_times[s] # << >>
    /\ last_op.op \in {"update", "on_c_return"}
    /\ last_op.moved # {}

\* the call that returns directly after a measured native call it made, in
\* a well-nested run: the Sample recorded for it has total = cumulative - the
\* cumulative values of its measured children, the native call not among
\* them, so the native call's cumulative is within its total
NativeTimeInCallerTotal ==
    ( /\ Ran("on_return") /\ in_sync' /\ Last(frames).pushed
      /\ last_op.op = "on_c_return" /\ last_op.moved # {} ) =>
        LET fr == Last(frames)
            sample == Last(times'[Sym(last_op'.name)])
        IN /\ sample.cumulative = clock' - fr.entry
           /\ sample.total = sample.cumulative - fr.child
           /\ \A n \in last_op.moved :
                sample.total >= previous_times[n][1].cumulative

\* C24 as stated: on_native_call and on_native_return leave the stack and
\* the live store unchanged, and the time spent in a native call is part of
\* the calling frame's total and cumulative.
C24_Original ==
    [][ /\ (Ran("on_c_call") \/ Ran("on_c_return")) => UNCHANGED << stack, times >>
        /\ NativeTimeInCallerTotal ]_vars

\* C24, amended: on_native_call and on_native_return leave the stack
\* unchanged; on_native_call leaves the live store unchanged, and
\* on_native_return of a symbol that is not blacklisted removes that symbol's
\* entry from the live store (its samples move to the finalized store, behind
\* the native Sample) and leaves every other entry unchanged; the time spent
\* in a native call is part of the calling frame's total and cumulative.
C24_NativeEventsAndStack ==
    [][ /\ Ran("on_c_call") => UNCHANGED << stack, times >>
        /\ Ran("on_c_return") =>
            LET symbol == SymAfter(last_op'.name) IN
            /\ UNCHANGED stack
            /\ IF symbol \in blacklist \/ panicked'
               THEN UNCHANGED times
               ELSE /\ times' = MapRemove(times, symbol)
                    /\ previous_times'[symbol] =
                           << [total |-> 0, cumulative |-> clock' - c_enter_count[1]] >>
                               \o Live(times, symbol)
        /\ NativeTimeInCallerTotal ]_vars

\* g was measured as a host function; then f called the native g, which took
\* time and took g's Sample out of the live store, and f returned: f's only
\* Sample has the native time in its total
C24_Witness ==
    /\ last_op.op = "on_return" /\ last_op.name = "f"
    /\ in_sync
    /\ blacklist = { Sym("g") }
    /\ Len(previous_times[Sym("g")]) = 2
    /\ previous_times[Sym("g")][1].total = 0
    /\ previous_times[Sym("g")][1].cumulative > 0
    /\ DOMAIN times = { Sym("f") }
    /\ Len(times[Sym("f")]) = 1
    /\ times[Sym("f")][1].total = times[Sym("f")][1].cumulative
    /\ times[Sym("f")][1].total >= previous_times[Sym("g")][1].cumulative
    /\ clock < times[Sym("f")][1].cumulative + previous_times[Sym("g")][1].cumulative
                   + previous_times[Sym("g")][2].cumulative
====
